---------------------------- MODULE Spec2Model ----------------------------
(***************************************************************************)
(* The client-side interaction state machine of src/app/page.tsx (the      *)
(* Home component): the React state of the page, the requests it has in    *)
(* flight towards the backend, and the backend's document store as far as  *)
(* the page's list fetches observe it.                                     *)
(*                                                                         *)
(* Strings whose content the code inspects (file names, the question) are  *)
(* sequences of one-character strings, so that toLowerCase, endsWith and   *)
(* trim are computed, not assumed.                                         *)
(***************************************************************************)
EXTENDS Naturals, Sequences, FiniteSets

VARIABLES
    documents,    \* useState<Document[]>([])            page.tsx:18
    question,     \* useState('')                        page.tsx:19
    chatHistory,  \* useState<ChatMessage[]>([])         page.tsx:20
    loading,      \* useState(false)                     page.tsx:21
    apiStatus,    \* useState('checking')                page.tsx:22
    mounted,      \* the mount effect (page.tsx:25-28) has run
    chooser,      \* the file chooser opened by createSampleDocument is showing
    alertMsg,     \* the alert() the step just taken raised, "none" if none
    pickedFile,   \* event.target.files?.[0] of the change event the step just
                  \* taken handled, NoFile if it handled none
    reqs,         \* the fetch() calls that have not settled, in issue order
    serverDocs    \* the backend's document store, oldest first

vars == << documents, question, chatHistory, loading, apiStatus, mounted,
           chooser, alertMsg, pickedFile, reqs, serverDocs >>

---------------------------------------------------------------------------
(* Bounds of the model.                                                    *)

\* The backend stores at most MaxDocuments documents.
MaxDocuments == 1
\* The chat grows to at most MaxTurns turns.
MaxTurns == 2

---------------------------------------------------------------------------
(* Strings.                                                                *)

\* String.prototype.toLowerCase on one character of the model's alphabet.
LowerChar(c) ==
    CASE c = "A" -> "a" [] c = "C" -> "c" [] c = "D" -> "d" [] c = "F" -> "f"
      [] c = "O" -> "o" [] c = "P" -> "p" [] c = "T" -> "t" [] c = "X" -> "x"
      [] OTHER -> c

\* String.prototype.toLowerCase
ToLowerCase(s) == [i \in 1..Len(s) |-> LowerChar(s[i])]

\* String.prototype.endsWith
EndsWith(s, suffix) ==
    /\ Len(suffix) <= Len(s)
    /\ SubSeq(s, Len(s) - Len(suffix) + 1, Len(s)) = suffix

\* The white space String.prototype.trim removes (of the model's alphabet).
IsSpace(c) == c \in {" ", "\t"}

\* String.prototype.trim
RECURSIVE TrimLeft(_)
TrimLeft(s) ==
    IF s # << >> /\ IsSpace(Head(s)) THEN TrimLeft(Tail(s)) ELSE s

RECURSIVE TrimRight(_)
TrimRight(s) ==
    IF s # << >> /\ IsSpace(s[Len(s)])
    THEN TrimRight(SubSeq(s, 1, Len(s) - 1))
    ELSE s

Trim(s) == TrimRight(TrimLeft(s))

\* The file names a user can hand to the page.
NameUpperTxt == << "a", ".", "T", "X", "T" >>
NameInnerPdf == << "c", ".", "p", "d", "f", ".", "e", "x", "e" >>
FileNames == { NameUpperTxt, NameInnerPdf }

\* event.target.files?.[0] when the selection is empty.
NoFile == << >>

\* The texts a user can type into the question box.
Blank == << " " >>
PaddedQ == << " ", "q" >>
Questions == { << >>, Blank, PaddedQ }

\* s without its i-th element.
Remove(s, i) == SubSeq(s, 1, i - 1) \o SubSeq(s, i + 1, Len(s))

---------------------------------------------------------------------------
(* Requests and responses.                                                 *)

\* What a fetch() settles with.  status: "ok" (response.ok), "fail" (a
\* response with a non-success status) or "neterr" (fetch rejects).  json:
\* response.json() resolves.  has/list: the optional sequence field of the
\* body (documents, sources) is present, and its value.  answer: data.answer.
Resp(status, json, has, list, answer) ==
    [ status |-> status, json |-> json, has |-> has, list |-> list,
      answer |-> answer ]

Pending == Resp("none", FALSE, FALSE, << >>, "")

\* A fetch() in flight.  arg: what the continuation's closure holds (the
\* file's name, the question).  stage: "sent", then "replied" once the
\* outcome is decided and on its way to the page.
Req(kind, arg) ==
    [ kind |-> kind, arg |-> arg, stage |-> "sent", resp |-> Pending ]

Mutating(r) == r.kind \in { "upload", "ask" }

\* The positions in reqs of the requests of a kind, or at a stage.
InFlight(kind) == { i \in 1..Len(reqs) : reqs[i].kind = kind }
Sent(kind) == { i \in InFlight(kind) : reqs[i].stage = "sent" }

---------------------------------------------------------------------------
Init ==
    /\ documents = << >>
    /\ question = << >>
    /\ chatHistory = << >>
    /\ loading = FALSE
    /\ apiStatus = "checking"
    /\ mounted = FALSE
    /\ chooser = FALSE
    /\ alertMsg = "none"
    /\ pickedFile = << >>
    /\ reqs = << >>
    /\ serverDocs = << >>

\* A step of the page that raises no alert().
NoAlert == alertMsg' = "none"

\* A step that handles no change event of a file input.
NoPick == pickedFile' = << >>

\* useEffect(() => { checkApiStatus(); fetchDocuments(); }, [])
\* Both calls run to their first await: two requests are in flight.
Initialize ==
    /\ ~mounted
    /\ mounted' = TRUE
    /\ reqs' = reqs \o << Req("probe", << >>), Req("list", << >>) >>
    /\ NoAlert
    /\ NoPick
    /\ UNCHANGED << documents, question, chatHistory, loading, apiStatus,
                    chooser, serverDocs >>

---------------------------------------------------------------------------
(* The rendered controls.  Every handler runs on the state of the latest   *)
(* render: React re-renders after each event and each continuation before  *)
(* the next event is dispatched.                                           *)

\* Mutation of FileInputDisabled: the file input is never disabled.
FileInputNeverDisabled == FALSE

\* <input type="file" ... disabled={loading} />
FileInputDisabled == loading

\* <button onClick={createSampleDocument} ... disabled={loading}>
SampleButtonDisabled == loading

\* <input type="text" ... disabled={loading} />
QuestionInputDisabled == loading

\* Mutation of AskButtonDisabled: disabled={!question.trim()}, loading forgotten.
AskButtonDisabledWhenBlank == Trim(question) = << >>

\* <button onClick={askQuestion} disabled={loading || !question.trim()}>
AskButtonDisabled == loading \/ Trim(question) = << >>

\* The page takes user events: it is mounted and no file chooser (a modal
\* dialog of the browser) covers it.
Interactive == mounted /\ ~chooser

---------------------------------------------------------------------------
(* handleFileUpload                                                        *)

\* const allowedTypes = ['.txt', '.pdf', '.doc', '.docx'];
allowedTypes ==
    { << ".", "t", "x", "t" >>, << ".", "p", "d", "f" >>,
      << ".", "d", "o", "c" >>, << ".", "d", "o", "c", "x" >> }

\* s occurs in t (String.prototype.includes).
Includes(t, s) ==
    \E k \in 1..Len(t) : k + Len(s) - 1 <= Len(t) /\ SubSeq(t, k, k + Len(s) - 1) = s

\* Mutation of isValidType: fileName.includes(type) for fileName.endsWith(type).
isValidTypeIncludes(name) ==
    LET fileName == ToLowerCase(name)
    IN  \E type \in allowedTypes : Includes(fileName, type)

\* const fileName = file.name.toLowerCase();
\* const isValidType = allowedTypes.some(type => fileName.endsWith(type));
isValidType(name) ==
    LET fileName == ToLowerCase(name)
    IN  \E type \in allowedTypes : EndsWith(fileName, type)

\* handleFileUpload up to its first await; it never touches the chooser.
handleFileUpload(file) ==
    /\ pickedFile' = file
    /\ IF file = NoFile
       THEN /\ NoAlert
            /\ UNCHANGED << documents, question, chatHistory, loading,
                            apiStatus, mounted, reqs, serverDocs >>
       ELSE IF ~isValidType(file)
       THEN /\ alertMsg' = "invalid-type"
            /\ UNCHANGED << documents, question, chatHistory, loading, apiStatus,
                            mounted, reqs, serverDocs >>
       ELSE /\ loading' = TRUE
            /\ reqs' = Append(reqs, Req("upload", file))
            /\ NoAlert
            /\ UNCHANGED << documents, question, chatHistory, apiStatus,
                            mounted, serverDocs >>

\* The model lets the store grow to MaxDocuments: no further upload is
\* issued once the stored documents and the uploads under way reach it.
MayPick(file) ==
    (file # NoFile /\ isValidType(file)) =>
        Len(serverDocs) + Cardinality(Sent("upload")) < MaxDocuments

\* onChange of the page's file input: the user picked a file (or emptied the
\* selection).  The accept attribute only presets the chooser's filter.
FileInputChange(file) ==
    /\ Interactive
    /\ ~FileInputDisabled
    /\ MayPick(file)
    /\ handleFileUpload(file)
    /\ UNCHANGED chooser

\* new File([blob], 'welcome-to-knowledgescout.txt', { type: 'text/plain' })
SampleFileName ==
    << "w", "e", "l", "c", "o", "m", "e", "-", "t", "o", "-", "k", "n",
       "o", "w", "l", "e", "d", "g", "e", "s", "c", "o", "u", "t", ".",
       "t", "x", "t" >>

\* createSampleDocument: builds a File, a detached <input type="file"> whose
\* onchange is handleFileUpload, assigns input.files and calls input.click().
\* click() on a file input shows the browser's file chooser; assigning
\* input.files dispatches no event.
createSampleDocument ==
    /\ Interactive
    /\ ~SampleButtonDisabled
    /\ chooser' = TRUE
    /\ NoAlert
    /\ NoPick
    /\ UNCHANGED << documents, question, chatHistory, loading, apiStatus,
                    mounted, reqs, serverDocs >>

\* The user picks a file in that chooser: the change event reaches
\* input.onchange with the picked file as event.target.files[0].
ChooserChange(file) ==
    /\ chooser
    /\ file # NoFile
    /\ MayPick(file)
    /\ chooser' = FALSE
    /\ handleFileUpload(file)

\* The user dismisses the chooser (or the browser never showed one): no
\* change event.
ChooserCancel ==
    /\ chooser
    /\ chooser' = FALSE
    /\ NoAlert
    /\ NoPick
    /\ UNCHANGED << documents, question, chatHistory, loading, apiStatus,
                    mounted, reqs, serverDocs >>

---------------------------------------------------------------------------
(* askQuestion                                                             *)

\* onChange={(e) => setQuestion(e.target.value)}
QuestionChange(text) ==
    /\ Interactive
    /\ ~QuestionInputDisabled
    /\ question' = text
    /\ NoAlert
    /\ NoPick
    /\ UNCHANGED << documents, chatHistory, loading, apiStatus, mounted,
                    chooser, reqs, serverDocs >>

\* Mutation of askQuestion: if (!question) return, the trim() forgotten.
askQuestionUntrimmed ==
    IF question = << >>
    THEN /\ NoAlert
         /\ NoPick
         /\ UNCHANGED << documents, question, chatHistory, loading, apiStatus,
                         mounted, chooser, reqs, serverDocs >>
    ELSE /\ loading' = TRUE
         /\ reqs' = Append(reqs, Req("ask", question))
         /\ NoAlert
         /\ NoPick
         /\ UNCHANGED << documents, question, chatHistory, apiStatus,
                         mounted, chooser, serverDocs >>

\* askQuestion up to its first await.  The request carries the closure's
\* question, which the continuation uses again.
askQuestion ==
    IF Trim(question) = << >>
    THEN /\ NoAlert
         /\ NoPick
         /\ UNCHANGED << documents, question, chatHistory, loading, apiStatus,
                         mounted, chooser, reqs, serverDocs >>
    ELSE /\ loading' = TRUE
         /\ reqs' = Append(reqs, Req("ask", question))
         /\ NoAlert
         /\ NoPick
         /\ UNCHANGED << documents, question, chatHistory, apiStatus,
                         mounted, chooser, serverDocs >>

\* The model lets the chat grow to MaxTurns: no further question is sent
\* once the turns and the asks under way reach it.
MayAsk ==
    Trim(question) # << >> =>
        Len(chatHistory) + Cardinality(InFlight("ask")) < MaxTurns

\* onKeyPress={(e) => e.key === 'Enter' && !loading && askQuestion()}
QuestionKeyPressEnter ==
    /\ Interactive
    /\ ~QuestionInputDisabled
    /\ ~loading
    /\ MayAsk
    /\ askQuestion

\* onClick={askQuestion} of the ask button
AskButtonClick ==
    /\ Interactive
    /\ ~AskButtonDisabled
    /\ MayAsk
    /\ askQuestion

---------------------------------------------------------------------------
(* The backend and the network: what each request can settle with.         *)

Ok(has, list, answer) == Resp("ok", TRUE, has, list, answer)
OkUndecodable == Resp("ok", FALSE, FALSE, << >>, "")
Fail(json) == Resp("fail", json, FALSE, << >>, "")
NetErr == Resp("neterr", FALSE, FALSE, << >>, "")

\* GET / : "any 2xx = alive".
ProbeOutcomes(reliable) ==
    IF reliable THEN { Ok(FALSE, << >>, "") }
    ELSE { Ok(FALSE, << >>, ""), Fail(FALSE), NetErr }

\* GET /documents/ : { documents: Document[] } of the store as it is when the
\* backend serves the request; or an error status with a JSON body that has
\* no documents field (such as { detail }); or no response.
ListOutcomes(reliable) ==
    IF reliable THEN { Ok(TRUE, serverDocs, "") }
    ELSE { Ok(TRUE, serverDocs, ""), Fail(TRUE), NetErr }

\* POST /upload/ : << stored, response >>.  The backend stores the document
\* and answers { filename, file_type } (or a body that does not decode, or
\* the response is lost), or it refuses the file, or it is never reached.
UploadOutcomes(reliable) ==
    IF reliable THEN { << TRUE, Ok(FALSE, << >>, "") >> }
    ELSE { << TRUE, Ok(FALSE, << >>, "") >>, << TRUE, OkUndecodable >>,
           << TRUE, NetErr >>, << FALSE, Fail(TRUE) >>, << FALSE, NetErr >> }

\* POST /ask/ : { answer, sources? }.
SourceA == [ filename |-> "a.txt" ]
AskOutcomes(reliable) ==
    IF reliable
    THEN { Ok(TRUE, << SourceA >>, "X is Y"), Ok(FALSE, << >>, "n/a") }
    ELSE { Ok(TRUE, << SourceA >>, "X is Y"), Ok(FALSE, << >>, "n/a"),
           OkUndecodable, Fail(TRUE), NetErr }

\* The i-th request gets its outcome; its continuation has not run yet.
Replied(i, resp) ==
    reqs' = [ reqs EXCEPT ![i] = [ @ EXCEPT !.stage = "replied", !.resp = resp ] ]

\* Document: created server-side on upload, with a backend-assigned id.
NewDocument(name) == [ id |-> Len(serverDocs) + 1, filename |-> name ]

BackendProbe(i, reliable) ==
    /\ i \in Sent("probe")
    /\ \E resp \in ProbeOutcomes(reliable) : Replied(i, resp)
    /\ NoAlert
    /\ NoPick
    /\ UNCHANGED << documents, question, chatHistory, loading, apiStatus,
                    mounted, chooser, serverDocs >>

BackendList(i, reliable) ==
    /\ i \in Sent("list")
    /\ \E resp \in ListOutcomes(reliable) : Replied(i, resp)
    /\ NoAlert
    /\ NoPick
    /\ UNCHANGED << documents, question, chatHistory, loading, apiStatus,
                    mounted, chooser, serverDocs >>

BackendUpload(i, reliable) ==
    /\ i \in Sent("upload")
    /\ \E out \in UploadOutcomes(reliable) :
          /\ Replied(i, out[2])
          /\ serverDocs' = IF out[1]
                           THEN Append(serverDocs, NewDocument(reqs[i].arg))
                           ELSE serverDocs
    /\ NoAlert
    /\ NoPick
    /\ UNCHANGED << documents, question, chatHistory, loading, apiStatus,
                    mounted, chooser >>

BackendAsk(i, reliable) ==
    /\ i \in Sent("ask")
    /\ \E resp \in AskOutcomes(reliable) : Replied(i, resp)
    /\ NoAlert
    /\ NoPick
    /\ UNCHANGED << documents, question, chatHistory, loading, apiStatus,
                    mounted, chooser, serverDocs >>

---------------------------------------------------------------------------
(* The continuations: what each handler does once its fetch() has settled. *)

\* The i-th request is of this kind and its outcome has reached the page.
Arrived(i, kind) ==
    /\ i \in InFlight(kind)
    /\ reqs[i].stage = "replied"

\* Mutation of ProbedStatus: any response counts as alive, response.ok is
\* not looked at.
ProbedStatusAnyResponse(resp) ==
    IF resp.status = "neterr" THEN "offline" ELSE "online"

\* checkApiStatus: response.ok ? 'online' : 'offline'; catch: 'offline'.
ProbedStatus(resp) ==
    IF resp.status = "ok" THEN "online" ELSE "offline"

\* Mutation of SettleProbe: the continuation polls, it issues the next probe
\* (a setInterval-like re-check).
SettleProbeReprobes(i) ==
    /\ Arrived(i, "probe")
    /\ apiStatus' = ProbedStatus(reqs[i].resp)
    /\ reqs' = Append(Remove(reqs, i), Req("probe", << >>))
    /\ NoAlert
    /\ NoPick
    /\ UNCHANGED << documents, question, chatHistory, loading, mounted,
                    chooser, serverDocs >>

SettleProbe(i) ==
    /\ Arrived(i, "probe")
    /\ apiStatus' = ProbedStatus(reqs[i].resp)
    /\ reqs' = Remove(reqs, i)
    /\ NoAlert
    /\ NoPick
    /\ UNCHANGED << documents, question, chatHistory, loading, mounted,
                    chooser, serverDocs >>

\* Mutation of FetchedDocuments: the fetched list is added to the one shown,
\* setDocuments(prev => [...prev, ...(data.documents || [])]).
FetchedDocumentsMerged(prev, resp) ==
    IF resp.status = "neterr" \/ ~resp.json THEN prev
    ELSE IF resp.has THEN prev \o resp.list
    ELSE prev

\* Mutation of FetchedDocuments: the list is taken over only once the probe
\* has found the backend alive, if (apiStatus === 'online') setDocuments(...).
FetchedDocumentsWhenOnline(prev, resp) ==
    IF resp.status = "neterr" \/ ~resp.json \/ apiStatus # "online" THEN prev
    ELSE IF resp.has THEN resp.list
    ELSE << >>

\* fetchDocuments: const data = await response.json();
\*                 setDocuments(data.documents || []);
\* response.ok is not looked at; a rejected fetch() or json() is caught and
\* logged, and documents stays.
FetchedDocuments(prev, resp) ==
    IF resp.status = "neterr" \/ ~resp.json THEN prev
    ELSE IF resp.has THEN resp.list
    ELSE << >>

\* Mutation of SettleList: fetchDocuments ends with setLoading(false).
SettleListReleasesBusy(i) ==
    /\ Arrived(i, "list")
    /\ documents' = FetchedDocuments(documents, reqs[i].resp)
    /\ reqs' = Remove(reqs, i)
    /\ loading' = FALSE
    /\ NoAlert
    /\ NoPick
    /\ UNCHANGED << question, chatHistory, apiStatus, mounted, chooser,
                    serverDocs >>

SettleList(i) ==
    /\ Arrived(i, "list")
    /\ documents' = FetchedDocuments(documents, reqs[i].resp)
    /\ reqs' = Remove(reqs, i)
    /\ NoAlert
    /\ NoPick
    /\ UNCHANGED << question, chatHistory, loading, apiStatus, mounted,
                    chooser, serverDocs >>

\* Mutation of UploadSucceeded: response.ok alone decides, the body is not
\* awaited before fetchDocuments().
UploadSucceededAnyOk(resp) == resp.status = "ok"

\* handleFileUpload after the await: the upload counts as done when the
\* response is ok and its body decodes (result.filename is read).
UploadSucceeded(resp) == resp.status = "ok" /\ resp.json

\* The alert handleFileUpload raises.
UploadAlert(resp) ==
    IF UploadSucceeded(resp) THEN "uploaded"
    ELSE IF resp.status = "fail" THEN "upload-failed"
    ELSE "upload-error"

\* finally { setLoading(false); } of handleFileUpload
UploadFinallyLoading(resp) == FALSE

SettleUpload(i) ==
    /\ Arrived(i, "upload")
    /\ alertMsg' = UploadAlert(reqs[i].resp)
    /\ NoPick
    /\ reqs' = IF UploadSucceeded(reqs[i].resp)
               THEN \* fetchDocuments(), not awaited
                    Append(Remove(reqs, i), Req("list", << >>))
               ELSE Remove(reqs, i)
    /\ loading' = UploadFinallyLoading(reqs[i].resp)
    /\ UNCHANGED << documents, question, chatHistory, apiStatus, mounted,
                    chooser, serverDocs >>

\* askQuestion after the await: !response.ok throws; so does a body that
\* does not decode.
AskSucceeded(resp) == resp.status = "ok" /\ resp.json

\* Mutation of NewTurn: the turn keeps question.trim().
NewTurnTrimmed(text, resp) ==
    [ question |-> Trim(text), answer |-> resp.answer,
      sources |-> IF resp.has THEN resp.list ELSE << >> ]

\* { question, answer: data.answer, sources: data.sources || [] }
NewTurn(text, resp) ==
    [ question |-> text, answer |-> resp.answer,
      sources |-> IF resp.has THEN resp.list ELSE << >> ]

\* Mutation of AskedHistory: the new turn is put first,
\* setChatHistory(prev => [{...}, ...prev]).
AskedHistoryPrepended(prev, text, resp) ==
    IF AskSucceeded(resp) THEN << NewTurn(text, resp) >> \o prev ELSE prev

\* setChatHistory(prev => [...prev, {...}])
AskedHistory(prev, text, resp) ==
    IF AskSucceeded(resp) THEN Append(prev, NewTurn(text, resp)) ELSE prev

\* Mutation of AskedQuestion: setQuestion('') moved into the finally block.
AskedQuestionAlwaysCleared(prev, resp) == << >>

\* setQuestion('')
AskedQuestion(prev, resp) ==
    IF AskSucceeded(resp) THEN << >> ELSE prev

\* The alert askQuestion raises: none on success.
AskAlert(resp) == IF AskSucceeded(resp) THEN "none" ELSE "ask-failed"

\* Mutation of AskFinallyLoading: setLoading(false) as the last statement of
\* the try block, with no finally.
AskLoadingWithoutFinally(resp) == ~AskSucceeded(resp)

\* finally { setLoading(false); } of askQuestion
AskFinallyLoading(resp) == FALSE

SettleAsk(i) ==
    /\ Arrived(i, "ask")
    /\ chatHistory' = AskedHistory(chatHistory, reqs[i].arg, reqs[i].resp)
    /\ question' = AskedQuestion(question, reqs[i].resp)
    /\ alertMsg' = AskAlert(reqs[i].resp)
    /\ NoPick
    /\ loading' = AskFinallyLoading(reqs[i].resp)
    /\ reqs' = Remove(reqs, i)
    /\ UNCHANGED << documents, apiStatus, mounted, chooser, serverDocs >>

---------------------------------------------------------------------------
Next ==
    \/ Initialize
    \/ \E file \in FileNames \cup { NoFile } : FileInputChange(file)
    \/ createSampleDocument
    \/ \E file \in FileNames : ChooserChange(file)
    \/ ChooserCancel
    \/ \E text \in Questions : QuestionChange(text)
    \/ QuestionKeyPressEnter
    \/ AskButtonClick
    \/ \E i \in 1..Len(reqs) : BackendProbe(i, FALSE)
    \/ \E i \in 1..Len(reqs) : BackendList(i, FALSE)
    \/ \E i \in 1..Len(reqs) : BackendUpload(i, FALSE)
    \/ \E i \in 1..Len(reqs) : BackendAsk(i, FALSE)
    \/ \E i \in 1..Len(reqs) : SettleProbe(i)
    \/ \E i \in 1..Len(reqs) : SettleList(i)
    \/ \E i \in 1..Len(reqs) : SettleUpload(i)
    \/ \E i \in 1..Len(reqs) : SettleAsk(i)

Spec == Init /\ [][Next]_vars

\* The same page against a backend and a network that never fail.
NextReliable ==
    \/ Initialize
    \/ \E file \in FileNames \cup { NoFile } : FileInputChange(file)
    \/ createSampleDocument
    \/ \E file \in FileNames : ChooserChange(file)
    \/ ChooserCancel
    \/ \E text \in Questions : QuestionChange(text)
    \/ QuestionKeyPressEnter
    \/ AskButtonClick
    \/ \E i \in 1..Len(reqs) : BackendProbe(i, TRUE)
    \/ \E i \in 1..Len(reqs) : BackendList(i, TRUE)
    \/ \E i \in 1..Len(reqs) : BackendUpload(i, TRUE)
    \/ \E i \in 1..Len(reqs) : BackendAsk(i, TRUE)
    \/ \E i \in 1..Len(reqs) : SettleProbe(i)
    \/ \E i \in 1..Len(reqs) : SettleList(i)
    \/ \E i \in 1..Len(reqs) : SettleUpload(i)
    \/ \E i \in 1..Len(reqs) : SettleAsk(i)

SpecReliable == Init /\ [][NextReliable]_vars

\* Every upload and ask request that is under way gets its outcome and its
\* continuation runs: the browser's event loop runs a settled fetch()'s
\* continuation, and the requests are taken to settle.
MutatingProgress ==
    \E i \in 1..Len(reqs) :
        \/ BackendUpload(i, FALSE) \/ SettleUpload(i)
        \/ BackendAsk(i, FALSE) \/ SettleAsk(i)

SpecFair == Spec /\ WF_vars(MutatingProgress)

---------------------------------------------------------------------------
(* The document list as rendered.                                          *)

\* Mutation of getFileType: filename.endsWith(...) without toLowerCase().
getFileTypeCaseSensitive(filename) ==
    IF EndsWith(filename, << ".", "p", "d", "f" >>) THEN "PDF"
    ELSE IF EndsWith(filename, << ".", "d", "o", "c" >>) THEN "DOC"
    ELSE IF EndsWith(filename, << ".", "d", "o", "c", "x" >>) THEN "DOCX"
    ELSE "TXT"

\* if (filename.toLowerCase().endsWith('.pdf')) return 'PDF';
\* if (filename.toLowerCase().endsWith('.doc')) return 'DOC';
\* if (filename.toLowerCase().endsWith('.docx')) return 'DOCX';
\* return 'TXT';
getFileType(filename) ==
    IF EndsWith(ToLowerCase(filename), << ".", "p", "d", "f" >>) THEN "PDF"
    ELSE IF EndsWith(ToLowerCase(filename), << ".", "d", "o", "c" >>) THEN "DOC"
    ELSE IF EndsWith(ToLowerCase(filename), << ".", "d", "o", "c", "x" >>)
         THEN "DOCX"
    ELSE "TXT"

\* documents.map((doc) => ... {getFileType(doc.filename)} ...): the type
\* badge shown for each document of the list.
FileTypeBadges ==
    [ k \in 1..Len(documents) |-> getFileType(documents[k].filename) ]

\* The file names of documents the backend can hold from earlier sessions.
NameReportPDF == << "r", "e", "p", "o", "r", "t", ".", "P", "D", "F" >>
NameNotes == << "n", "o", "t", "e", "s" >>
NameDoc == << "x", ".", "d", "o", "c" >>
NameDocxMixed == << "X", ".", "D", "o", "c", "X" >>
NameTxt == << "a", ".", "t", "x", "t" >>
NamePdfNoDot == << "p", "d", "f" >>
NameDotPdf == << ".", "p", "d", "f" >>
NameDocThenPdf == << "a", ".", "d", "o", "c", ".", "P", "d", "f" >>
NameDocxThenDoc == << "a", ".", "d", "o", "c", "x", ".", "d", "o", "c" >>
NameDocTrailingX == << "a", ".", "d", "o", "c", "x", "x" >>
StoredNames ==
    { NameReportPDF, NameNotes, NameDoc, NameDocxMixed, NameTxt, NamePdfNoDot,
      NameDotPdf, NameDocThenPdf, NameDocxThenDoc, NameDocTrailingX,
      NameInnerPdf, << >> }

\* The page as constructed, opened against a backend whose store is empty or
\* holds a document of an earlier session.
InitStored ==
    /\ documents = << >>
    /\ question = << >>
    /\ chatHistory = << >>
    /\ loading = FALSE
    /\ apiStatus = "checking"
    /\ mounted = FALSE
    /\ chooser = FALSE
    /\ alertMsg = "none"
    /\ pickedFile = << >>
    /\ reqs = << >>
    /\ serverDocs \in { << >> } \cup
                       { << [ id |-> 1, filename |-> n ] >> : n \in StoredNames }

\* The page is opened and left alone: the mount effect and its two requests.
NextStored ==
    \/ Initialize
    \/ \E i \in 1..Len(reqs) : BackendProbe(i, FALSE)
    \/ \E i \in 1..Len(reqs) : BackendList(i, FALSE)
    \/ \E i \in 1..Len(reqs) : SettleProbe(i)
    \/ \E i \in 1..Len(reqs) : SettleList(i)

SpecStored == InitStored /\ [][NextStored]_vars

---------------------------------------------------------------------------
(* Properties.                                                             *)

\* This step runs the continuation of the i-th request, which is of this kind.
Settles(i, kind) ==
    /\ Arrived(i, kind)
    /\ \/ reqs' = Remove(reqs, i)
       \/ reqs' = Append(Remove(reqs, i), Req("list", << >>))

\* The positions of the upload and ask requests under way.
MutatingInFlight == InFlight("upload") \cup InFlight("ask")

\* No request is under way.
Quiescent == mounted /\ reqs = << >>

\* C1: against a backend that never fails, once an upload has succeeded and
\* no request is under way any more, documents is the backend's store as it
\* is now, whatever the order in which the list responses arrived.
C1_DocumentsLatestWhenQuiescent ==
    (Quiescent /\ serverDocs # << >>) => documents = serverDocs

\* C2: whenever an upload or an ask request is under way, loading is true.
C2_BusyWhileMutatingInFlight ==
    MutatingInFlight # {} => loading

C2_Witness ==
    \E i \in MutatingInFlight : reqs[i].stage = "replied" /\ loading

\* C3: through the rendered controls, at most one upload or ask request is
\* under way at any time.
C3_AtMostOneMutating ==
    Cardinality(MutatingInFlight) <= 1

C3_Witness ==
    /\ InFlight("upload") # {}
    /\ Trim(question) # << >>
    /\ Len(chatHistory) < MaxTurns

\* C4: the step that settles an upload or an ask request leaves loading false,
\* whatever the outcome; and if these requests settle, loading, once true,
\* becomes false again.
C4_BusyReleasedOnSettlement ==
    /\ [][ \A i \in 1..Len(reqs) :
             (Settles(i, "upload") \/ Settles(i, "ask")) => ~loading' ]_vars
    /\ (loading ~> ~loading)

C4_Witness ==
    alertMsg \in { "upload-error", "ask-failed" } /\ ~loading

\* The lowercased name ends in .txt, .pdf, .doc or .docx.
HasAllowedExtension(name) ==
    LET n == Len(name)
        lower == ToLowerCase(name)
        last4 == IF n >= 4 THEN SubSeq(lower, n - 3, n) ELSE << >>
        last5 == IF n >= 5 THEN SubSeq(lower, n - 4, n) ELSE << >>
    IN  \/ last4 \in { << ".", "t", "x", "t" >>, << ".", "p", "d", "f" >>,
                       << ".", "d", "o", "c" >> }
        \/ last5 = << ".", "d", "o", "c", "x" >>

\* C5: a step that handles the choice of a file whose lowercased name does not
\* end in .txt, .pdf, .doc or .docx issues no request and leaves documents,
\* loading, chatHistory and question as they are.
C5_InvalidFileChangesNothing ==
    [][ (pickedFile' # NoFile /\ ~HasAllowedExtension(pickedFile')) =>
            /\ reqs' = reqs
            /\ documents' = documents
            /\ loading' = loading
            /\ chatHistory' = chatHistory
            /\ question' = question ]_vars

C5_Witness ==
    /\ pickedFile = NameInnerPdf
    /\ alertMsg = "invalid-type"
    /\ ~loading

\* C6: from the moment an ask request is under way, up to and including the
\* step that settles it with a failure, chatHistory and question keep their
\* values: a failed askQuestion leaves both as they were before the call.
C6_FailedAskChangesNothing ==
    [][ \A i \in InFlight("ask") :
            ~(Settles(i, "ask") /\ reqs[i].resp.status = "ok" /\ reqs[i].resp.json)
            => (chatHistory' = chatHistory /\ question' = question) ]_vars

C6_Witness ==
    /\ alertMsg = "ask-failed"
    /\ Len(chatHistory) = 1
    /\ question = PaddedQ

\* C7: the step that settles an ask request with a success response appends
\* exactly one turn at the end of chatHistory, made of the question as it was
\* submitted, the response's answer and the response's sources (the empty
\* sequence when it has none), and clears question.
C7_SuccessfulAskAppendsTurn ==
    [][ \A i \in InFlight("ask") :
            (Settles(i, "ask") /\ reqs[i].resp.status = "ok" /\ reqs[i].resp.json)
            => /\ chatHistory' =
                    chatHistory \o
                    << [ question |-> reqs[i].arg,
                         answer |-> reqs[i].resp.answer,
                         sources |-> IF reqs[i].resp.has
                                     THEN reqs[i].resp.list ELSE << >> ] >>
               /\ question' = << >> ]_vars

C7_Witness ==
    /\ Len(chatHistory) = 2
    /\ chatHistory[1] = [ question |-> PaddedQ, answer |-> "X is Y",
                          sources |-> << SourceA >> ]
    /\ chatHistory[2] = [ question |-> PaddedQ, answer |-> "n/a",
                          sources |-> << >> ]
    /\ question = << >>
    /\ reqs = << >>

\* C8: the step that settles a list request with a failure, be it a transport
\* error or a response with a non-success status, leaves documents as it is.
C8_FailedRefreshKeepsDocuments ==
    [][ \A i \in InFlight("list") :
            (Settles(i, "list") /\ reqs[i].resp.status \in { "fail", "neterr" })
            => documents' = documents ]_vars

C10_ProbeSetsStatus ==
    [][ \A i \in InFlight("probe") :
            Settles(i, "probe") =>
                /\ (apiStatus' = "online") <=> (reqs[i].resp.status = "ok")
                /\ reqs[i].resp.status \in { "fail", "neterr" }
                      => apiStatus' = "offline" ]_vars

C10_Witness ==
    apiStatus = "online" /\ InFlight("probe") = {}

\* C11: apiStatus starts at checking; a step that changes it takes it from
\* checking to online or to offline, so once online or offline it keeps its
\* value; the probe is issued once, by the mount effect, and is no longer
\* under way once apiStatus has left checking; the settlement of an upload,
\* an ask or a list request leaves apiStatus as it is.
C11_StatusSettlesOnce ==
    /\ apiStatus = "checking"
    /\ [][ /\ apiStatus' # apiStatus =>
                (apiStatus = "checking" /\ apiStatus' \in { "online", "offline" })
           /\ InFlight("probe")' # {} =>
                (apiStatus' = "checking" /\ Cardinality(InFlight("probe")') = 1)
           /\ (Cardinality(InFlight("probe")') > Cardinality(InFlight("probe")))
                => ~mounted
           /\ \A i \in 1..Len(reqs) :
                (Settles(i, "upload") \/ Settles(i, "ask") \/ Settles(i, "list"))
                => apiStatus' = apiStatus ]_vars

C11_Witness ==
    /\ apiStatus = "offline"
    /\ alertMsg = "uploaded"
    /\ chatHistory # << >>

\* C12: if the probe's request never gets a response (it stays under way
\* for ever), apiStatus still becomes offline: it does not stay at checking.
C12_HungProbeEndsOffline ==
    <>[](Sent("probe") # {}) => <>(apiStatus = "offline")

\* C13: in every step chatHistory keeps its value or gets one turn added at
\* its end: the turns it holds are never removed, reordered or modified,
\* whatever uploads, list refreshes and the probe do in between.
C13_ChatHistoryAppendOnly ==
    [][ /\ Len(chatHistory') \in { Len(chatHistory), Len(chatHistory) + 1 }
        /\ \A k \in 1..Len(chatHistory) : chatHistory'[k] = chatHistory[k] ]_vars

C13_Witness ==
    /\ Len(chatHistory) = 2
    /\ chatHistory[1] # chatHistory[2]
    /\ documents # << >>
    /\ apiStatus # "checking"

\* C14: askQuestion called while the question, trimmed, is empty (Enter in
\* the question box; the ask button is disabled then) issues no request and
\* leaves loading, chatHistory, question and documents as they are.
C14_BlankAskIsNoOp ==
    [][ ((QuestionKeyPressEnter \/ AskButtonClick) /\ Trim(question) = << >>) =>
            /\ reqs' = reqs
            /\ loading' = loading
            /\ chatHistory' = chatHistory
            /\ question' = question
            /\ documents' = documents ]_vars

C14_Witness ==
    /\ question = Blank
    /\ ENABLED QuestionKeyPressEnter
    /\ alertMsg = "none"
    /\ chatHistory # << >>
    /\ documents # << >>
    /\ reqs = << >>

\* C15: the mount effect issues the probe and the list fetch in one step;
\* the continuation of each can run as soon as its own response is there,
\* whether or not the other request has settled; and when both responses
\* are there, running one continuation changes neither what the other will
\* make of its response nor the state the other writes, so apiStatus and
\* documents end up the same in both orders, failures included.
C15_MountRequestsIndependent ==
    /\ [](\A i \in 1..Len(reqs) :
            /\ Arrived(i, "probe") => ENABLED SettleProbe(i)
            /\ Arrived(i, "list") => ENABLED SettleList(i))
    /\ [][ /\ (~mounted /\ mounted') =>
                (Sent("probe")' # {} /\ Sent("list")' # {})
           /\ \A p \in InFlight("probe"), l \in InFlight("list") :
                /\ (Settles(p, "probe") /\ Arrived(l, "list")) =>
                      \A r \in { reqs[l].resp } :
                         /\ documents' = documents
                         /\ FetchedDocuments(documents, r)' =
                               FetchedDocuments(documents, r)
                /\ (Settles(l, "list") /\ Arrived(p, "probe")) =>
                      \A r \in { reqs[p].resp } :
                         /\ apiStatus' = apiStatus
                         /\ ProbedStatus(r)' = ProbedStatus(r) ]_vars

C15_Witness ==
    /\ apiStatus = "checking"
    /\ \E p \in InFlight("probe") : reqs[p].stage = "replied"
    /\ InFlight("list") = {}
    /\ serverDocs = << >>

\* C16: createSampleDocument, invoked while the page is idle, does what
\* handleFileUpload does for a file named welcome-to-knowledgescout.txt: the
\* name passes the validation, loading becomes true and exactly one upload
\* request carrying that file is issued.
C16_SampleIsUploadOfWelcomeFile ==
    /\ [](isValidType(SampleFileName))
    /\ [][ createSampleDocument =>
              /\ loading'
              /\ reqs' = Append(reqs, Req("upload", SampleFileName)) ]_vars

\* The type the lowercased name's suffix stands for: PDF for .pdf, DOC for
\* .doc, DOCX for .docx, TXT for everything else.
TypeOfSuffix(name) ==
    LET n == Len(name)
        lower == ToLowerCase(name)
        last4 == IF n >= 4 THEN SubSeq(lower, n - 3, n) ELSE << >>
        last5 == IF n >= 5 THEN SubSeq(lower, n - 4, n) ELSE << >>
    IN  CASE last4 = << ".", "p", "d", "f" >> -> "PDF"
          [] last4 = << ".", "d", "o", "c" >> -> "DOC"
          [] last5 = << ".", "d", "o", "c", "x" >> -> "DOCX"
          [] OTHER -> "TXT"

\* C17: for every document shown, whatever its name, getFileType gives PDF
\* when the name ends in .pdf, DOC for .doc, DOCX for .docx, whatever the
\* case of the letters, and TXT for every other name, names without an
\* extension and the empty name included.
C17_FileTypeBySuffix ==
    \A k \in 1..Len(documents) :
        /\ FileTypeBadges[k] \in { "PDF", "DOC", "DOCX", "TXT" }
        /\ FileTypeBadges[k] = TypeOfSuffix(documents[k].filename)
        /\ documents[k].filename = NameReportPDF => FileTypeBadges[k] = "PDF"
        /\ documents[k].filename = NameNotes => FileTypeBadges[k] = "TXT"

C17_Witness ==
    /\ Len(documents) = 1
    /\ documents[1].filename = NameReportPDF
    /\ FileTypeBadges = << "PDF" >>

\* C18: the step that settles an upload request with a failure (a response
\* with a non-success status, a transport error, or a success response whose
\* body does not decode) issues no request, neither a list fetch nor a
\* second upload, and leaves documents and chatHistory as they are.
C18_FailedUploadStopsThere ==
    [][ \A i \in InFlight("upload") :
            (Settles(i, "upload")
                /\ (reqs[i].resp.status \in { "fail", "neterr" } \/ ~reqs[i].resp.json))
            => /\ reqs' = Remove(reqs, i)
               /\ documents' = documents
               /\ chatHistory' = chatHistory ]_vars

C18_Witness ==
    /\ alertMsg = "upload-error"
    /\ serverDocs # << >>
    /\ documents = << >>
    /\ reqs = << >>

\* C19: the step that settles the probe changes apiStatus and nothing else
\* of the page's state, the step that settles a list request changes
\* documents and nothing else; neither issues a request, and neither changes
\* loading, chatHistory or question, so the upload and ask controls are
\* disabled after the step exactly when they were before it.
C19_BackgroundSettlementFrame ==
    [][ \A i \in 1..Len(reqs) :
            /\ Settles(i, "probe") => documents' = documents
            /\ Settles(i, "list") => apiStatus' = apiStatus
            /\ (Settles(i, "probe") \/ Settles(i, "list")) =>
                  /\ reqs' = Remove(reqs, i)
                  /\ loading' = loading
                  /\ chatHistory' = chatHistory
                  /\ question' = question
                  /\ FileInputDisabled' = FileInputDisabled
                  /\ SampleButtonDisabled' = SampleButtonDisabled
                  /\ QuestionInputDisabled' = QuestionInputDisabled
                  /\ AskButtonDisabled' = AskButtonDisabled ]_vars

C19_Witness ==
    /\ loading
    /\ InFlight("upload") # {}
    /\ question = PaddedQ
    /\ apiStatus = "online"
    /\ InFlight("list") = {}

=============================================================================
